---------------------------- MODULE Spec2Model ----------------------------
(***************************************************************************)
(* Model of quicker: a thin wrapper over the MySQLdb / psycopg2 / sqlite3  *)
(* drivers.  Two source files are modelled side by side:                   *)
(*   variant = "quicker"  src/quicker.py       (connects in __init__)      *)
(*   variant = "main"     src/quicker/main.py  (connects in __enter__)     *)
(* The caller is the environment: it constructs a Connection, enters the   *)
(* with-block, runs Query operations in the body, leaves the block and may *)
(* keep using the Query handle afterwards.  Every native driver call is    *)
(* appended to `calls` with the phase it was made in and whether it        *)
(* returned (ok) or raised.                                                *)
(***************************************************************************)
EXTENDS Integers, Sequences, FiniteSets, TLC

VARIABLES
    variant,        \* which source file is running
    provider,       \* the `provider` argument as passed to Connection(...)
    commitFlag,     \* the `commit` argument (self._commit)
    dbKwarg,        \* whether kwargs holds the key 'database'
    pc,             \* position of the caller
    nconn,          \* native connection: "none" | "open" | "closed"
    ncursor,        \* native cursor:     "none" | "open" | "closed"
    handle,         \* what `with ... as q` bound: "unset" | "Query" | "None"
    calls,          \* native calls made so far, in order
    bodyExc,        \* exception that terminated the with-body ("none" if none)
    raised,         \* exception delivered to the caller by the last statement
    last,           \* inputs and outcome of the last Query operation
    nbody,          \* Query operations issued inside the with-body
    nafter,         \* Query operations issued after the with-block
    column_names,   \* input of the row conversion
    rows,           \* input of the row conversion
    data            \* output of the row conversion

vars == <<variant, provider, commitFlag, dbKwarg, pc, nconn, ncursor, handle,
          calls, bodyExc, raised, last, nbody, nafter, column_names, rows, data>>

---------------------------------------------------------------------------
(* Bounds of the model *)

MaxBodyOps == 2
MaxAfterOps == 1
MaxCols == 2
MaxRows == 2
MaxRowLen == 2

---------------------------------------------------------------------------
(* Values *)

Variants == {"quicker", "main"}

\* class Provider(str, Enum)
Provider == {"mysql", "postgres", "sqlite"}

\* values a caller may pass as `provider`: the three members, None, the empty
\* string and an unrecognized string
ProviderInputs == Provider \cup {"None", "", "oracle"}

ColNames == {"a", "b"}
Cells == {1, 2}

EmptyMap == [k \in {} |-> 0]

Maps == UNION {[d -> Cells] : d \in SUBSET ColNames}

SeqsUpTo(S, n) == UNION {[1..k -> S] : k \in 0..n}

\* a row is a dict (isdict, its items in map) or a plain sequence (in seq)
DictRow(m) == [isdict |-> TRUE, seq |-> <<>>, map |-> m]
TupleRow(s) == [isdict |-> FALSE, seq |-> s, map |-> EmptyMap]

RowValues == {DictRow(m) : m \in Maps} \cup {TupleRow(s) : s \in SeqsUpTo(Cells, MaxRowLen)}

Call(op, phase, ok) == [op |-> op, phase |-> phase, ok |-> ok]

NoOp == [op |-> "none", exc |-> "none", kind |-> "unset", rows |-> <<>>,
         execOk |-> TRUE, fetch |-> "none"]

---------------------------------------------------------------------------
(* Row conversion *)

Put(item, k, v) == [x \in (DOMAIN item) \cup {k} |-> IF x = k THEN v ELSE item[x]]

RECURSIVE FillItem(_, _, _, _)
FillItem(cols, row, i, item) ==
    IF i > Len(row) THEN [exc |-> "none", item |-> item]
    ELSE IF i > Len(cols) THEN [exc |-> "IndexError", item |-> item]
    ELSE FillItem(cols, row, i + 1, Put(item, cols[i], row[i]))

RECURSIVE ConvertFrom(_, _, _, _)
ConvertFrom(cols, rws, n, acc) ==
    IF n > Len(rws) THEN [exc |-> "none", data |-> acc]
    ELSE IF rws[n].isdict THEN ConvertFrom(cols, rws, n + 1, Append(acc, rws[n].map))
    ELSE LET r == FillItem(cols, rws[n].seq, 1, EmptyMap)
         IN  IF r.exc # "none" THEN [exc |-> r.exc, data |-> <<>>]
             ELSE ConvertFrom(cols, rws, n + 1, Append(acc, r.item))

\* mutant: rows that are already dicts are dropped instead of passed through
mklistDropsDicts(cols, rws) ==
    ConvertFrom(cols, SelectSeq(rws, LAMBDA r : ~r.isdict), 1, <<>>)

mklist(cols, rws) == ConvertFrom(cols, rws, 1, <<>>)

make_list(cols, rws) == ConvertFrom(cols, rws, 1, <<>>)

RowConversion(v, cols, rws) ==
    IF v = "main" THEN make_list(cols, rws) ELSE mklist(cols, rws)

---------------------------------------------------------------------------
(* Connection *)

\* mutant: an unset provider is let through instead of rejected
ProviderCheckUnsetAllowed(v, p) ==
    IF p \in {"None", ""} THEN "none"
    ELSE IF p \notin Provider THEN "ValueError"
    ELSE "none"

\* the checks __init__ makes on `provider` before anything else
ProviderCheck(v, p) ==
    IF v = "main" /\ p \in {"None", ""} THEN "ValueError"
    ELSE IF p \notin Provider THEN "ValueError"
    ELSE "none"

\* the per-provider block: import the driver, translate kwargs, connect,
\* open a cursor.  importOk / connectOk / cursorOk are the driver's outcomes.
Open(p, db, importOk, connectOk, cursorOk, phase) ==
    IF p \notin Provider THEN
        [calls |-> <<>>, exc |-> "none", conn |-> "none", cur |-> "none"]
    ELSE IF ~importOk THEN
        [calls |-> <<Call("import", phase, FALSE)>>, exc |-> "ImportError",
         conn |-> "none", cur |-> "none"]
    ELSE IF p = "postgres" /\ ~db THEN
        [calls |-> <<Call("import", phase, TRUE)>>, exc |-> "KeyError",
         conn |-> "none", cur |-> "none"]
    ELSE IF ~connectOk THEN
        [calls |-> <<Call("import", phase, TRUE), Call("connect", phase, FALSE)>>,
         exc |-> "ConnectError", conn |-> "none", cur |-> "none"]
    ELSE IF ~cursorOk THEN
        [calls |-> <<Call("import", phase, TRUE), Call("connect", phase, TRUE),
                     Call("cursor", phase, FALSE)>>,
         exc |-> "CursorError", conn |-> "open", cur |-> "none"]
    ELSE
        [calls |-> <<Call("import", phase, TRUE), Call("connect", phase, TRUE),
                     Call("cursor", phase, TRUE)>>,
         exc |-> "none", conn |-> "open", cur |-> "open"]

NothingOpened == [calls |-> <<>>, exc |-> "none", conn |-> "none", cur |-> "none"]

\* Connection.__init__
ConnectionInit(v, p, db, importOk, connectOk, cursorOk) ==
    LET chk == ProviderCheck(v, p)
    IN  IF chk # "none" THEN [NothingOpened EXCEPT !.exc = chk]
        ELSE IF v = "main" THEN NothingOpened
        ELSE Open(p, db, importOk, connectOk, cursorOk, "init")

\* Connection.__enter__: the value bound by `as`, and what it opened
ConnectionEnter(v, p, db, importOk, connectOk, cursorOk) ==
    IF v = "quicker" THEN NothingOpened @@ [handle |-> "Query"]
    ELSE IF p \in {"mysql", "postgres"} THEN
        LET o == Open(p, db, importOk, connectOk, cursorOk, "enter")
        IN  o @@ [handle |-> IF o.exc = "none" THEN "Query" ELSE "unset"]
    ELSE NothingOpened @@ [handle |-> "None"]

\* Connection.__exit__ / Connection.close: the native calls made, the
\* exception raised by them, and the native handles afterwards
ConnectionExit(flag, conn, cur, commitOk, curCloseOk, connCloseOk, phase) ==
    LET pre == IF flag THEN <<Call("commit", phase, commitOk)>> ELSE <<>>
    IN  IF conn = "none" THEN
            [calls |-> <<>>, exc |-> "AttributeError", conn |-> conn, cur |-> cur]
        ELSE IF flag /\ ~commitOk THEN
            [calls |-> pre, exc |-> "CommitError", conn |-> conn, cur |-> cur]
        ELSE IF ~curCloseOk THEN
            [calls |-> pre \o <<Call("cursor.close", phase, FALSE)>>,
             exc |-> "CursorCloseError", conn |-> conn, cur |-> cur]
        ELSE IF ~connCloseOk THEN
            [calls |-> pre \o <<Call("cursor.close", phase, TRUE),
                                Call("connection.close", phase, FALSE)>>,
             exc |-> "ConnectionCloseError", conn |-> conn, cur |-> "closed"]
        ELSE
            [calls |-> pre \o <<Call("cursor.close", phase, TRUE),
                                Call("connection.close", phase, TRUE)>>,
             exc |-> "none", conn |-> "closed", cur |-> "closed"]

\* mutant: __exit__ returns a true value, which suppresses the body's exception
PropagateSuppressed(exitExc, bodyException) == exitExc

\* what the with-statement delivers to the caller: __exit__ returns None, so
\* an exception of the body is re-raised unless __exit__ itself raised
Propagate(exitExc, bodyException) ==
    IF exitExc # "none" THEN exitExc ELSE bodyException

---------------------------------------------------------------------------
(* Query *)

FetchErrors == {"ProgrammingError", "OtherFetchError"}

\* mutant: the psycopg2 ProgrammingError raised by fetchall is not caught
QueryExecuteUnguarded(v, p, execOk, fetch, fetched, description, phase) ==
    LET imp == IF p = "postgres" THEN <<Call("import", phase, TRUE)>> ELSE <<>>
        ex == Call("execute", phase, execOk)
        fa == Call("fetchall", phase, fetch = "rows")
        base == [op |-> "execute", execOk |-> execOk, fetch |-> fetch,
                 rows |-> <<>>]
    IN  IF ~execOk THEN
            [calls |-> imp \o <<ex>>,
             out |-> base @@ [exc |-> "ExecuteError", kind |-> "raise"]]
        ELSE IF fetch \in FetchErrors THEN
            [calls |-> imp \o <<ex, fa>>,
             out |-> base @@ [exc |-> fetch, kind |-> "raise"]]
        ELSE
            [calls |-> imp \o <<ex, fa>>,
             out |-> [base EXCEPT !.rows = fetched] @@ [exc |-> "none", kind |-> "list"]]

\* Query.execute: execOk is the outcome of cursor.execute; fetch is the
\* outcome of cursor.fetchall ("rows" or the error it raises); fetched and
\* description are what the cursor holds
QueryExecute(v, p, execOk, fetch, fetched, description, phase) ==
    LET imp == IF p = "postgres" THEN <<Call("import", phase, TRUE)>> ELSE <<>>
        ex == Call("execute", phase, execOk)
        fa == Call("fetchall", phase, fetch = "rows")
        base == [op |-> "execute", execOk |-> execOk, fetch |-> fetch,
                 rows |-> <<>>]
    IN  IF ~execOk THEN
            [calls |-> imp \o <<ex>>,
             out |-> base @@ [exc |-> "ExecuteError", kind |-> "raise"]]
        ELSE IF fetch \in FetchErrors /\ ~(p = "postgres" /\ fetch = "ProgrammingError") THEN
            [calls |-> imp \o <<ex, fa>>,
             out |-> base @@ [exc |-> fetch, kind |-> "raise"]]
        ELSE IF fetch \in FetchErrors THEN
            [calls |-> imp \o <<ex, fa>>,
             out |-> base @@ [exc |-> "none", kind |-> "None"]]
        ELSE
            LET r == RowConversion(v, description, fetched)
            IN  [calls |-> imp \o <<ex, fa>>,
                 out |-> IF r.exc # "none"
                         THEN base @@ [exc |-> r.exc, kind |-> "raise"]
                         ELSE [base EXCEPT !.rows = r.data]
                              @@ [exc |-> "none", kind |-> "list"]]

\* Query.commit
QueryCommit(commitOk, phase) ==
    [calls |-> <<Call("commit", phase, commitOk)>>,
     out |-> [op |-> "commit", execOk |-> TRUE, fetch |-> "none", rows |-> <<>>,
              exc |-> IF commitOk THEN "none" ELSE "CommitError",
              kind |-> IF commitOk THEN "None" ELSE "raise"]]

\* result sets the model's driver hands back
FetchedSets == {<<>>, <<TupleRow(<<1, 2>>)>>, <<DictRow([k \in ColNames |-> 1])>>}
Descriptions == {<<>>, <<"a", "b">>}

---------------------------------------------------------------------------
(* The caller's program *)

Init ==
    /\ variant \in Variants
    /\ provider \in ProviderInputs
    /\ commitFlag \in BOOLEAN
    /\ dbKwarg \in BOOLEAN
    /\ pc = "start"
    /\ nconn = "none"
    /\ ncursor = "none"
    /\ handle = "unset"
    /\ calls = <<>>
    /\ bodyExc = "none"
    /\ raised = "none"
    /\ last = NoOp
    /\ nbody = 0
    /\ nafter = 0
    /\ column_names = <<>>
    /\ rows = <<>>
    /\ data = [exc |-> "none", data |-> <<>>]

\* conn = Connection(provider, commit, **kwargs)
Construct ==
    /\ pc = "start"
    /\ \E importOk, connectOk, cursorOk \in BOOLEAN :
         LET o == ConnectionInit(variant, provider, dbKwarg, importOk, connectOk, cursorOk)
         IN  /\ calls' = calls \o o.calls
             /\ nconn' = o.conn
             /\ ncursor' = o.cur
             /\ raised' = o.exc
             /\ pc' = IF o.exc = "none" THEN "constructed" ELSE "failed"
    /\ UNCHANGED <<variant, provider, commitFlag, dbKwarg, handle, bodyExc, last,
                   nbody, nafter, column_names, rows, data>>

\* with conn as q:
Enter ==
    /\ pc = "constructed"
    /\ \E importOk, connectOk, cursorOk \in BOOLEAN :
         LET o == ConnectionEnter(variant, provider, dbKwarg, importOk, connectOk, cursorOk)
         IN  /\ calls' = calls \o o.calls
             /\ nconn' = IF variant = "quicker" THEN nconn ELSE o.conn
             /\ ncursor' = IF variant = "quicker" THEN ncursor ELSE o.cur
             /\ handle' = o.handle
             /\ raised' = o.exc
             /\ pc' = IF o.exc = "none" THEN "scope" ELSE "failed"
    /\ UNCHANGED <<variant, provider, commitFlag, dbKwarg, bodyExc, last,
                   nbody, nafter, column_names, rows, data>>

\* q(statement, parameters) / q.query(...) / q.execute(...) inside the body;
\* the body may catch the error and go on, or let it leave the block
BodyExecute ==
    /\ pc = "scope"
    /\ handle = "Query"
    /\ bodyExc = "none"
    /\ nbody < MaxBodyOps
    /\ \E execOk, caught \in BOOLEAN, fetch \in {"rows"} \cup FetchErrors,
          fetched \in FetchedSets, description \in Descriptions :
         LET r == QueryExecute(variant, provider, execOk, fetch, fetched, description, "body")
         IN  /\ calls' = calls \o r.calls
             /\ last' = r.out
             /\ bodyExc' = IF caught THEN "none" ELSE r.out.exc
    /\ nbody' = nbody + 1
    /\ UNCHANGED <<variant, provider, commitFlag, dbKwarg, pc, nconn, ncursor, handle,
                   raised, nafter, column_names, rows, data>>

\* q.commit() inside the body
BodyCommit ==
    /\ pc = "scope"
    /\ handle = "Query"
    /\ bodyExc = "none"
    /\ nbody < MaxBodyOps
    /\ \E commitOk, caught \in BOOLEAN :
         LET r == QueryCommit(commitOk, "body")
         IN  /\ calls' = calls \o r.calls
             /\ last' = r.out
             /\ bodyExc' = IF caught THEN "none" ELSE r.out.exc
    /\ nbody' = nbody + 1
    /\ UNCHANGED <<variant, provider, commitFlag, dbKwarg, pc, nconn, ncursor, handle,
                   raised, nafter, column_names, rows, data>>

\* q(...) when __enter__ returned None: calling None raises TypeError
BodyCallNone ==
    /\ pc = "scope"
    /\ handle = "None"
    /\ bodyExc = "none"
    /\ bodyExc' = "TypeError"
    /\ UNCHANGED <<variant, provider, commitFlag, dbKwarg, pc, nconn, ncursor, handle,
                   calls, raised, last, nbody, nafter, column_names, rows, data>>

\* leaving the with-block, normally or with bodyExc: __exit__ runs
Exit ==
    /\ pc = "scope"
    /\ \E commitOk, curCloseOk, connCloseOk \in BOOLEAN :
         LET x == ConnectionExit(commitFlag, nconn, ncursor, commitOk, curCloseOk,
                                 connCloseOk, "exit")
         IN  /\ calls' = calls \o x.calls
             /\ nconn' = x.conn
             /\ ncursor' = x.cur
             /\ raised' = Propagate(x.exc, bodyExc)
    /\ pc' = "exited"
    /\ UNCHANGED <<variant, provider, commitFlag, dbKwarg, handle, bodyExc, last,
                   nbody, nafter, column_names, rows, data>>

\* conn.close() called directly on a constructed Connection (src/quicker.py)
Close ==
    /\ pc = "constructed"
    /\ variant = "quicker"
    /\ \E commitOk, curCloseOk, connCloseOk \in BOOLEAN :
         LET x == ConnectionExit(commitFlag, nconn, ncursor, commitOk, curCloseOk,
                                 connCloseOk, "exit")
         IN  /\ calls' = calls \o x.calls
             /\ nconn' = x.conn
             /\ ncursor' = x.cur
             /\ raised' = x.exc
    /\ pc' = "exited"
    /\ UNCHANGED <<variant, provider, commitFlag, dbKwarg, handle, bodyExc, last,
                   nbody, nafter, column_names, rows, data>>

\* q(...) after the with-block: the handle still holds the cursor
AfterExecute ==
    /\ pc = "exited"
    /\ handle = "Query"
    /\ nafter < MaxAfterOps
    /\ \E execOk \in BOOLEAN, fetch \in {"rows"} \cup FetchErrors,
          fetched \in FetchedSets, description \in Descriptions :
         LET r == QueryExecute(variant, provider, execOk, fetch, fetched, description, "after")
         IN  /\ calls' = calls \o r.calls
             /\ last' = r.out
             /\ raised' = r.out.exc
    /\ nafter' = nafter + 1
    /\ UNCHANGED <<variant, provider, commitFlag, dbKwarg, pc, nconn, ncursor, handle,
                   bodyExc, nbody, column_names, rows, data>>

\* q.commit() after the with-block
AfterCommit ==
    /\ pc = "exited"
    /\ handle = "Query"
    /\ nafter < MaxAfterOps
    /\ \E commitOk \in BOOLEAN :
         LET r == QueryCommit(commitOk, "after")
         IN  /\ calls' = calls \o r.calls
             /\ last' = r.out
             /\ raised' = r.out.exc
    /\ nafter' = nafter + 1
    /\ UNCHANGED <<variant, provider, commitFlag, dbKwarg, pc, nconn, ncursor, handle,
                   bodyExc, nbody, column_names, rows, data>>

Next ==
    \/ Construct
    \/ Enter
    \/ BodyExecute
    \/ BodyCommit
    \/ BodyCallNone
    \/ Exit
    \/ Close
    \/ AfterExecute
    \/ AfterCommit

Spec == Init /\ [][Next]_vars

---------------------------------------------------------------------------
(* The row conversion on its own: inputs drawn from the bounded sets *)

InitRows ==
    /\ variant \in Variants
    /\ provider = "sqlite"
    /\ commitFlag = TRUE
    /\ dbKwarg = FALSE
    /\ pc = "rows"
    /\ nconn = "none"
    /\ ncursor = "none"
    /\ handle = "unset"
    /\ calls = <<>>
    /\ bodyExc = "none"
    /\ raised = "none"
    /\ last = NoOp
    /\ nbody = 0
    /\ nafter = 0
    /\ column_names \in SeqsUpTo(ColNames, MaxCols)
    /\ rows \in SeqsUpTo(RowValues, MaxRows)
    /\ data = [exc |-> "none", data |-> <<>>]

Convert ==
    /\ pc = "rows"
    /\ data' = RowConversion(variant, column_names, rows)
    /\ pc' = "converted"
    /\ UNCHANGED <<variant, provider, commitFlag, dbKwarg, nconn, ncursor, handle,
                   calls, bodyExc, raised, last, nbody, nafter, column_names, rows>>

NextRows == Convert

SpecRows == InitRows /\ [][NextRows]_vars

---------------------------------------------------------------------------
(* Vocabulary of the properties *)

\* the native calls made by __exit__ / close, in order
ExitCalls == SelectSeq(calls, LAMBDA c : c.phase = "exit")

Ops(s) == [i \in DOMAIN s |-> s[i].op]

\* the order the scope exit is documented to follow
ExpectedExitOps ==
    IF commitFlag THEN <<"commit", "cursor.close", "connection.close">>
    ELSE <<"cursor.close", "connection.close">>

\* a native connection and cursor were opened for this Connection
Opened == \E i \in DOMAIN calls : calls[i].op = "cursor" /\ calls[i].ok

\* the scope exit has run and nothing was done since
ExitDone == pc = "exited" /\ nafter = 0

Attempted(op) == \E i \in DOMAIN ExitCalls : ExitCalls[i].op = op

\* the last index of cols holding the name k
LastIndex(cols, k) == CHOOSE j \in 1..Len(cols) :
    cols[j] = k /\ \A m \in 1..Len(cols) : cols[m] = k => m <= j

---------------------------------------------------------------------------
(* Properties *)

\* C1: on every exit path of the scope, the exit makes the native calls
\* commit (iff the commit flag is set), cursor.close, connection.close, in
\* that order, and connection.close is always attempted.
C1_ExitOrderOnEveryPath ==
    (ExitDone /\ Opened) =>
        /\ Ops(ExitCalls) = ExpectedExitOps
        /\ Attempted("connection.close")

\* C2: when the exit's commit raises, cursor.close and connection.close are
\* still attempted and the commit error reaches the caller.
C2_CommitFailureStillCloses ==
    (ExitDone /\ \E i \in DOMAIN ExitCalls : ExitCalls[i].op = "commit" /\ ~ExitCalls[i].ok) =>
        /\ Attempted("cursor.close")
        /\ Attempted("connection.close")
        /\ raised = "CommitError"

\* C3: with commit=False the exit never calls the native commit, and the
\* cursor close and the connection close are both still carried out.
C3_NoCommitAndStillClosed ==
    (ExitDone /\ Opened /\ ~commitFlag) =>
        /\ ~Attempted("commit")
        /\ Attempted("cursor.close")
        /\ Attempted("connection.close")

\* C4: no Query operation reaches the native cursor or connection after the
\* parent Connection's scope exit or close() has run.
C4_NoUseAfterRelease ==
    \A i \in DOMAIN calls : calls[i].phase # "after"

\* C5: for every supported provider, inside the scope the bound handle is a
\* Query over an open native connection and cursor.
C5_EnterYieldsQuery ==
    pc = "scope" => (handle = "Query" /\ nconn = "open" /\ ncursor = "open")

\* C6: with postgres, a ProgrammingError raised by fetchall makes execute
\* return None; with mysql or sqlite an error raised by fetchall is raised
\* by execute.
C6_NoResultGuard ==
    (last.op = "execute" /\ last.execOk /\ last.fetch \in FetchErrors) =>
        /\ (provider = "postgres" /\ last.fetch = "ProgrammingError")
              => (last.kind = "None" /\ last.exc = "none")
        /\ provider \in {"mysql", "sqlite"}
              => (last.kind = "raise" /\ last.exc = last.fetch)

C6_Witness ==
    /\ provider = "postgres"
    /\ last.op = "execute"
    /\ last.execOk
    /\ last.fetch = "ProgrammingError"
    /\ last.kind = "None"

\* C7: with an unset or unrecognized provider, construction fails with
\* ValueError (the invalid-provider error) and no driver import, connect or
\* cursor call is ever made; no native connection or cursor exists.
C7_InvalidProviderFailsFirst ==
    provider \notin Provider =>
        /\ pc \in {"start", "failed"}
        /\ pc = "failed" => raised = "ValueError"
        /\ calls = <<>>
        /\ nconn = "none"
        /\ ncursor = "none"

C7_Witness ==
    /\ provider \in {"None", ""}
    /\ pc = "failed"
    /\ raised = "ValueError"
    /\ calls = <<>>

\* C8 as stated: the output has one element per row, in order; a dict row is
\* passed through unchanged; for a positional row r with len(r) = len(c),
\* mapping[c[i]] = r[i] for every index i.
C8_RowConversionAsStated ==
    (pc = "converted" /\ data.exc = "none") =>
        /\ Len(data.data) = Len(rows)
        /\ \A n \in 1..Len(rows) :
             /\ rows[n].isdict => data.data[n] = rows[n].map
             /\ (~rows[n].isdict /\ Len(rows[n].seq) = Len(column_names)) =>
                   \A i \in 1..Len(column_names) :
                       data.data[n][column_names[i]] = rows[n].seq[i]

\* C8 amended: as above, but mapping[c[i]] = r[j] for the last index j with
\* c[j] = c[i] (which is r[i] when the names in c are distinct).
C8_RowConversion ==
    (pc = "converted" /\ data.exc = "none") =>
        /\ Len(data.data) = Len(rows)
        /\ \A n \in 1..Len(rows) :
             /\ rows[n].isdict => data.data[n] = rows[n].map
             /\ (~rows[n].isdict /\ Len(rows[n].seq) = Len(column_names)) =>
                   /\ DOMAIN data.data[n] = {column_names[i] : i \in 1..Len(column_names)}
                   /\ \A i \in 1..Len(column_names) :
                        data.data[n][column_names[i]] =
                            rows[n].seq[LastIndex(column_names, column_names[i])]

C8_Witness ==
    /\ pc = "converted"
    /\ data.exc = "none"
    /\ column_names = <<"a", "b">>
    /\ Len(rows) = 2
    /\ rows[1] = TupleRow(<<1, 2>>)
    /\ rows[2].isdict
    /\ data.data[1]["a"] = 1
    /\ data.data[1]["b"] = 2
    /\ data.data[2] = rows[2].map

\* C9: the conversion fails with an error whenever a positional row has
\* fewer values than there are column names.
C9_ShortRowRejected ==
    (pc = "converted" /\ \E n \in 1..Len(rows) :
          ~rows[n].isdict /\ Len(rows[n].seq) < Len(column_names)) =>
        data.exc # "none"

\* C10: when the body raised and every native call of the exit succeeded,
\* the caller receives the body's exception, after commit (if requested),
\* cursor.close and connection.close have run.
C10_BodyExceptionPropagates ==
    (/\ ExitDone
     /\ Opened
     /\ bodyExc # "none"
     /\ \A i \in DOMAIN ExitCalls : ExitCalls[i].ok) =>
        /\ raised = bodyExc
        /\ Ops(ExitCalls) = ExpectedExitOps

C10_Witness ==
    /\ ExitDone
    /\ bodyExc = "ExecuteError"
    /\ raised = "ExecuteError"
    /\ nconn = "closed"
    /\ ncursor = "closed"

=============================================================================
